---- MODULE Spec2Model ----
(***************************************************************************)
(* A model of sqlize (src/sqlize.js): the CSV -> SQL converter.            *)
(*                                                                         *)
(* JavaScript strings are modelled as sequences of one-character strings,  *)
(* so that toLowerCase, split, trim, the regular expressions, the quote    *)
(* escaping and the template strings are computed character by character.  *)
(* A JavaScript object (insertion-ordered own properties) is a sequence of *)
(* <<key, value>> pairs.  Header names and field values are assumed not to *)
(* be integer-like property names or names of Object.prototype members.    *)
(* A stream emits no "data" event after destroy().  The single-pass        *)
(* variant of the converter (src/unnamed/part_000) is modelled at the end, *)
(* over the same variables.                                                *)
(***************************************************************************)
EXTENDS Integers, Sequences, FiniteSets, TLC

(***************************************************************************)
(* Bounds of the model.                                                    *)
(***************************************************************************)
\* Sampling cap of the analysis pass.  The source samples 5000 rows
\* (src/sqlize.js:122); the model scales the cap down.
SampleCap == 2
\* Longest main source file, in data rows.
MaxRows == 4
\* Longest second (foreign-key) file, in data rows.
MaxFkRows == 3
\* Largest value of the sqlbatchsize option.
MaxBatch == 3
\* Longest buffer handed to insertRows in the function-level specification.
MaxBuffer == 4
\* Longest raw value handed to quoteIfNeeded in the function-level specification.
MaxValueLen == 3
\* Sampling cap of the single-pass variant.  The source samples 200 rows
\* (src/unnamed/part_000:57); the model scales the cap down.
SinglePassSampleCap == 3

(***************************************************************************)
(* Strings.                                                                *)
(***************************************************************************)
Digits == <<"0", "1", "2", "3", "4", "5", "6", "7", "8", "9">>

UpperCase ==
  <<"A", "B", "C", "D", "E", "F", "G", "H", "I", "J", "K", "L", "M",
    "N", "O", "P", "Q", "R", "S", "T", "U", "V", "W", "X", "Y", "Z">>

LowerCase ==
  <<"a", "b", "c", "d", "e", "f", "g", "h", "i", "j", "k", "l", "m",
    "n", "o", "p", "q", "r", "s", "t", "u", "v", "w", "x", "y", "z">>

IsDigit(c) == \E i \in 1..10 : Digits[i] = c

DigitVal(c) == (CHOOSE i \in 1..10 : Digits[i] = c) - 1

AllDigits(s) == \A i \in 1..Len(s) : IsDigit(s[i])

\* String.prototype.toLowerCase on one character.
ToLowerChar(c) ==
  IF \E i \in 1..26 : UpperCase[i] = c
    THEN LowerCase[CHOOSE i \in 1..26 : UpperCase[i] = c]
    ELSE c

\* String.prototype.toLowerCase.
ToLowerCase(s) == [i \in 1..Len(s) |-> ToLowerChar(s[i])]

\* String.prototype.trim (blanks only).
RECURSIVE TrimLeft(_)
TrimLeft(s) ==
  IF s # <<>> /\ s[1] = " " THEN TrimLeft(Tail(s)) ELSE s

RECURSIVE TrimRight(_)
TrimRight(s) ==
  IF s # <<>> /\ s[Len(s)] = " " THEN TrimRight(SubSeq(s, 1, Len(s) - 1)) ELSE s

Trim(s) == TrimRight(TrimLeft(s))

\* String.prototype.split on a one-character separator.
RECURSIVE SplitAcc(_, _, _)
SplitAcc(s, sep, cur) ==
  IF s = <<>> THEN <<cur>>
  ELSE IF s[1] = sep THEN <<cur>> \o SplitAcc(Tail(s), sep, <<>>)
  ELSE SplitAcc(Tail(s), sep, Append(cur, s[1]))

Split(s, sep) == SplitAcc(s, sep, <<>>)

\* Array.prototype.join.
RECURSIVE Join(_, _)
Join(parts, sep) ==
  IF parts = <<>> THEN <<>>
  ELSE IF Len(parts) = 1 THEN parts[1]
  ELSE parts[1] \o sep \o Join(Tail(parts), sep)

\* Conversion of a non-negative integer to its decimal string (template string).
RECURSIVE NumToStr(_)
NumToStr(n) ==
  IF n < 10 THEN <<Digits[n + 1]>>
  ELSE NumToStr(n \div 10) \o <<Digits[(n % 10) + 1]>>

\* Decimal value of a short digit string.
RECURSIVE StrToNum(_)
StrToNum(s) ==
  IF s = <<>> THEN 0
  ELSE 10 * StrToNum(SubSeq(s, 1, Len(s) - 1)) + DigitVal(s[Len(s)])

Range(s) == {s[i] : i \in 1..Len(s)}

\* Every sequence over S of length at most n.
SeqsUpTo(S, n) == UNION {[1..k -> S] : k \in 0..n}

(***************************************************************************)
(* JavaScript objects: insertion-ordered sequences of <<key, value>>.      *)
(***************************************************************************)
Keys(o) == [i \in 1..Len(o) |-> o[i][1]]

Values(o) == [i \in 1..Len(o) |-> o[i][2]]

Has(o, k) == \E i \in 1..Len(o) : o[i][1] = k

Get(o, k) == o[CHOOSE i \in 1..Len(o) : o[i][1] = k][2]

\* o[k] = v: an existing property keeps its position, a new one is appended.
Put(o, k, v) ==
  IF Has(o, k)
    THEN [i \in 1..Len(o) |-> IF o[i][1] = k THEN <<k, v>> ELSE o[i]]
    ELSE Append(o, <<k, v>>)

(***************************************************************************)
(* moment(value, format[, strict]): parsing against a format.              *)
(* A format is a sequence of tokens: a literal character, or a numeric     *)
(* field of lo..hi digits (lo, hi are the strict bounds of the token), or  *)
(* the zone token Z.                                                       *)
(***************************************************************************)
Lit(c) == [t |-> "lit", c |-> c, f |-> "", lo |-> 1, hi |-> 1]

Num(f, lo, hi) == [t |-> "num", c |-> "", f |-> f, lo |-> lo, hi |-> hi]

Zone == [t |-> "zone", c |-> "", f |-> "", lo |-> 1, hi |-> 6]

\* "YYYY-MM-DD HH:mm:ss"
FmtIsoSeconds ==
  <<Num("Y", 4, 4), Lit("-"), Num("M", 2, 2), Lit("-"), Num("D", 2, 2), Lit(" "),
    Num("h", 2, 2), Lit(":"), Num("m", 2, 2), Lit(":"), Num("s", 2, 2)>>

\* "YYYY-MM-DD HH:mm:ss.SSS"
FmtIsoMillis == FmtIsoSeconds \o <<Lit("."), Num("ms", 3, 3)>>

\* "YYYY-MM-DD HH:mm:ssZ"
FmtIsoZone == FmtIsoSeconds \o <<Zone>>

\* "DD-MM-YYYY HH:mm:ss.SSS"
FmtDayFirst ==
  <<Num("D", 2, 2), Lit("-"), Num("M", 2, 2), Lit("-"), Num("Y", 4, 4), Lit(" "),
    Num("h", 2, 2), Lit(":"), Num("m", 2, 2), Lit(":"), Num("s", 2, 2),
    Lit("."), Num("ms", 3, 3)>>

\* "YYYY/MM/DD HH:mm:ss.SSS"
FmtSlashes ==
  <<Num("Y", 4, 4), Lit("/"), Num("M", 2, 2), Lit("/"), Num("D", 2, 2), Lit(" "),
    Num("h", 2, 2), Lit(":"), Num("m", 2, 2), Lit(":"), Num("s", 2, 2),
    Lit("."), Num("ms", 3, 3)>>

\* "M/D/YY H:mm"
FmtUsShort ==
  <<Num("M", 1, 2), Lit("/"), Num("D", 1, 2), Lit("/"), Num("YY", 2, 2), Lit(" "),
    Num("h", 1, 2), Lit(":"), Num("m", 2, 2)>>

\* "M/D/YY HH:mm"
FmtUsShortHH ==
  <<Num("M", 1, 2), Lit("/"), Num("D", 1, 2), Lit("/"), Num("YY", 2, 2), Lit(" "),
    Num("h", 2, 2), Lit(":"), Num("m", 2, 2)>>

\* Parsed fields; -1 stands for a field no token has set.
NoFields ==
  [ok |-> TRUE, any |-> FALSE, Y |-> -1, M |-> -1, D |-> -1, h |-> -1, m |-> -1,
   s |-> -1, ms |-> -1]

SetField(acc, f, n) ==
  LET a == [acc EXCEPT !.any = TRUE] IN
  CASE f = "Y"  -> [a EXCEPT !.Y = n]
    [] f = "YY" -> [a EXCEPT !.Y = IF n > 68 THEN 1900 + n ELSE 2000 + n]
    [] f = "M"  -> [a EXCEPT !.M = n]
    [] f = "D"  -> [a EXCEPT !.D = n]
    [] f = "h"  -> [a EXCEPT !.h = n]
    [] f = "m"  -> [a EXCEPT !.m = n]
    [] f = "s"  -> [a EXCEPT !.s = n]
    [] f = "ms" -> [a EXCEPT !.ms = n]

\* Number of digits at s[pos..], at most hi.
RECURSIVE DigitRun(_, _, _)
DigitRun(s, pos, hi) ==
  IF hi = 0 \/ pos > Len(s) \/ ~IsDigit(s[pos]) THEN 0
  ELSE 1 + DigitRun(s, pos + 1, hi - 1)

\* Length of the match of /Z|[+-]\d\d(?::?\d\d)?/i at s[pos..]; 0 when none.
ZoneRun(s, pos) ==
  IF pos > Len(s) THEN 0
  ELSE IF s[pos] \in {"Z", "z"} THEN 1
  ELSE IF s[pos] \in {"+", "-"} /\ DigitRun(s, pos + 1, 2) = 2
    THEN IF DigitRun(s, pos + 3, 2) = 2 THEN 5
         ELSE IF pos + 3 <= Len(s) /\ s[pos + 3] = ":" /\ DigitRun(s, pos + 4, 2) = 2
           THEN 6
         ELSE 3
  ELSE 0

IsLeapYear(y) == (y % 4 = 0 /\ y % 100 # 0) \/ y % 400 = 0

DaysInMonth(y, m) ==
  IF m = 2 THEN (IF IsLeapYear(y) THEN 29 ELSE 28)
  ELSE IF m \in {4, 6, 9, 11} THEN 30 ELSE 31

\* Today's date, the default of the date fields a non-strict parse leaves unset.
Today == [Y |-> 2026, M |-> 11, D |-> 2]

\* configFromArray: the defaults of the fields no token has set.
Defaulted(a) ==
  LET y == IF a.Y = -1 THEN Today.Y ELSE a.Y
      m == IF a.M # -1 THEN a.M ELSE IF a.Y = -1 THEN Today.M ELSE 1
      d == IF a.D # -1 THEN a.D
           ELSE IF a.Y = -1 /\ a.M = -1 THEN Today.D ELSE 1
      z(x) == IF x = -1 THEN 0 ELSE x
  IN [a EXCEPT !.Y = y, !.M = m, !.D = d, !.h = z(a.h), !.m = z(a.m),
               !.s = z(a.s), !.ms = z(a.ms)]

\* checkOverflow: every field within its range.
NoOverflow(a) ==
  /\ a.M \in 1..12
  /\ a.D \in 1..DaysInMonth(a.Y, a.M)
  /\ a.h \in 0..24
  /\ (a.h = 24 => (a.m = 0 /\ a.s = 0 /\ a.ms = 0))
  /\ a.m \in 0..59
  /\ a.s \in 0..59

\* Strict parsing: every token matches where the previous one ended and the
\* whole input is consumed.
RECURSIVE StrictScan(_, _, _, _, _)
StrictScan(s, pos, fmt, i, acc) ==
  IF i > Len(fmt) THEN [acc EXCEPT !.ok = (pos = Len(s) + 1)]
  ELSE LET tk == fmt[i] IN
    IF tk.t = "lit"
      THEN IF pos <= Len(s) /\ s[pos] = tk.c
             THEN StrictScan(s, pos + 1, fmt, i + 1, acc)
             ELSE [acc EXCEPT !.ok = FALSE]
    ELSE IF tk.t = "num"
      THEN LET n == DigitRun(s, pos, tk.hi) IN
           IF n >= tk.lo
             THEN StrictScan(s, pos + n, fmt, i + 1,
                             SetField(acc, tk.f, StrToNum(SubSeq(s, pos, pos + n - 1))))
             ELSE [acc EXCEPT !.ok = FALSE]
    ELSE LET n == ZoneRun(s, pos) IN
         IF n > 0 THEN StrictScan(s, pos + n, fmt, i + 1, acc)
         ELSE [acc EXCEPT !.ok = FALSE]

\* moment(value, format, true).isValid()
StrictValid(s, fmt) ==
  LET a == StrictScan(s, 1, fmt, 1, NoFields) IN
  a.ok /\ NoOverflow(Defaulted(a))

\* First position >= pos where a digit stands; Len(s) + 1 when none.
RECURSIVE FirstDigit(_, _)
FirstDigit(s, pos) ==
  IF pos > Len(s) \/ IsDigit(s[pos]) THEN pos ELSE FirstDigit(s, pos + 1)

\* First position >= pos where character c stands; Len(s) + 1 when none.
RECURSIVE FirstChar(_, _, _)
FirstChar(s, pos, c) ==
  IF pos > Len(s) \/ s[pos] = c THEN pos ELSE FirstChar(s, pos + 1, c)

\* Non-strict parsing: every token is searched for in the rest of the input
\* (a numeric token reads one or two digits); what lies before a match is
\* skipped, a token without a match is left unset.
RECURSIVE LooseScan(_, _, _, _, _)
LooseScan(s, pos, fmt, i, acc) ==
  IF i > Len(fmt) THEN acc
  ELSE LET tk == fmt[i] IN
    IF tk.t = "lit"
      THEN LET p == FirstChar(s, pos, tk.c) IN
           LooseScan(s, IF p <= Len(s) THEN p + 1 ELSE pos, fmt, i + 1, acc)
    ELSE LET p == FirstDigit(s, pos)
             n == DigitRun(s, p, 2)
         IN IF n = 0 THEN LooseScan(s, pos, fmt, i + 1, acc)
            ELSE LooseScan(s, p + n, fmt, i + 1,
                           SetField(acc, tk.f, StrToNum(SubSeq(s, p, p + n - 1))))

\* moment(value, format): the parsed fields, with ok = isValid().
LooseParse(s, fmt) ==
  LET a == LooseScan(s, 1, fmt, 1, NoFields)
      d == Defaulted(a)
  IN [d EXCEPT !.ok = a.any /\ NoOverflow(d)]

\* A number left-padded with zeros to w digits.
Pad(n, w) ==
  LET t == NumToStr(n) IN
  [i \in 1..(w - Len(t)) |-> "0"] \o t

\* moment.format('YYYY-MM-DD HH:mm:ss')
FormatIso(a) ==
  Pad(a.Y, 4) \o <<"-">> \o Pad(a.M, 2) \o <<"-">> \o Pad(a.D, 2) \o <<" ">>
    \o Pad(a.h, 2) \o <<":">> \o Pad(a.m, 2) \o <<":">> \o Pad(a.s, 2)

(***************************************************************************)
(* Type inference (inferDataType, isDatetime, isMoreSpecificDataType).     *)
(***************************************************************************)
\* /^-?\d+(\.\d+)?$/
NumericPattern(value) ==
  LET body == IF value # <<>> /\ value[1] = "-" THEN Tail(value) ELSE value
      dot == FirstChar(body, 1, ".")
  IN IF dot > Len(body)
       THEN body # <<>> /\ AllDigits(body)
       ELSE /\ dot > 1
            /\ dot < Len(body)
            /\ AllDigits(SubSeq(body, 1, dot - 1))
            /\ AllDigits(SubSeq(body, dot + 1, Len(body)))

\* The digits before the decimal point of a value matching NumericPattern.
IntegerDigits(value) ==
  LET body == IF value[1] = "-" THEN Tail(value) ELSE value
  IN SubSeq(body, 1, FirstChar(body, 1, ".") - 1)

\* The digits after the decimal point of a value matching NumericPattern.
FractionDigits(value) ==
  LET dot == FirstChar(value, 1, ".")
  IN IF dot > Len(value) THEN <<>> ELSE SubSeq(value, dot + 1, Len(value))

\* Number.isInteger(Number(value)), for a value matching NumericPattern that
\* a double holds exactly.
NumberIsInteger(value) == \A i \in 1..Len(FractionDigits(value)) : FractionDigits(value)[i] = "0"

RECURSIVE StripLeadingZeros(_)
StripLeadingZeros(ds) ==
  IF Len(ds) > 1 /\ ds[1] = "0" THEN StripLeadingZeros(Tail(ds)) ELSE ds

\* x > y for two digit strings of the same length.
RECURSIVE DigitsGreater(_, _)
DigitsGreater(x, y) ==
  IF x = <<>> THEN FALSE
  ELSE IF DigitVal(x[1]) # DigitVal(y[1]) THEN DigitVal(x[1]) > DigitVal(y[1])
  ELSE DigitsGreater(Tail(x), Tail(y))

\* The digits of 2147483647, the largest int of MariaDB.
MaxIntDigits == <<"2", "1", "4", "7", "4", "8", "3", "6", "4", "7">>

\* Number(value) > 2147483647, for an integral value: decided on the digits,
\* so that no model value leaves the range of the integers of TLC.
ExceedsMaxInt(value) ==
  LET ds == StripLeadingZeros(IntegerDigits(value)) IN
  /\ value[1] # "-"
  /\ \/ Len(ds) > Len(MaxIntDigits)
     \/ Len(ds) = Len(MaxIntDigits) /\ DigitsGreater(ds, MaxIntDigits)

\* isDatetime: strict parsing against the six accepted formats.
IsDatetime(value) ==
  \E fmt \in {FmtIsoMillis, FmtDayFirst, FmtIsoZone, FmtIsoSeconds, FmtSlashes, FmtUsShort} :
    StrictValid(value, fmt)

\* /^\d{4}-\d{2}-\d{2}/
DatePrefix(value) ==
  /\ Len(value) >= 10
  /\ AllDigits(SubSeq(value, 1, 4))
  /\ value[5] = "-"
  /\ AllDigits(SubSeq(value, 6, 7))
  /\ value[8] = "-"
  /\ AllDigits(SubSeq(value, 9, 10))

InferDataType(value) ==
  IF value = <<>> THEN "null"
  ELSE IF NumericPattern(value)
    THEN IF NumberIsInteger(value)
           THEN IF ExceedsMaxInt(value) THEN "varchar(100)"
                ELSE IF value = <<"0", ".", "0">> THEN "decimal(15, 5)"
                ELSE "int"
           ELSE "decimal(15, 5)"
  ELSE IF IsDatetime(value) THEN "datetime"
  ELSE IF DatePrefix(value) THEN "date"
  ELSE "varchar(255)"

dataTypePriority ==
  <<"null", "int", "decimal(15, 5)", "date", "datetime", "varchar(100)", "varchar(255)">>

\* Array.prototype.indexOf (0-based, -1 when absent).
IndexOf(arr, x) ==
  IF \E i \in 1..Len(arr) : arr[i] = x
    THEN (CHOOSE i \in 1..Len(arr) : arr[i] = x /\ \A j \in 1..(i - 1) : arr[j] # x) - 1
    ELSE -1

\* A faulty variant of IsMoreSpecificDataType (the comparison reversed), which property C4 must reject.
IsLessSpecificDataType(currentType, newType) ==
  IndexOf(dataTypePriority, newType) < IndexOf(dataTypePriority, currentType)

IsMoreSpecificDataType(currentType, newType) ==
  IndexOf(dataTypePriority, newType) > IndexOf(dataTypePriority, currentType)

(***************************************************************************)
(* The analysis pass (analyzeRow, setDefaultDataTypes,                     *)
(* createColumnIndexToDataTypeMap).                                        *)
(***************************************************************************)
\* A faulty variant of ForcedTextType (the short-text tag), which property C10 must reject.
ForcedTextShort == "varchar(100)"

\* The tag analyzeRow gives a forced-text column.
ForcedTextType == "varchar(255)"

\* The tag analyzeRow gives the lookup column.
LookupColumnType == "int"

\* One iteration of analyzeRow's loop: the schema after the entry key: value.
AnalyzeEntry(schema, rawKey, value, lookupCol, forced) ==
  LET key == ToLowerCase(rawKey) IN
  IF key = lookupCol THEN Put(schema, key, LookupColumnType)
  ELSE IF key \in forced THEN Put(schema, key, ForcedTextType)
  ELSE IF ~Has(schema, key) THEN Put(schema, key, InferDataType(value))
  ELSE IF value # <<>> /\ IsMoreSpecificDataType(Get(schema, key), InferDataType(value))
    THEN Put(schema, key, InferDataType(value))
  ELSE schema

RECURSIVE AnalyzeEntries(_, _, _, _, _)
AnalyzeEntries(schema, row, i, lookupCol, forced) ==
  IF i > Len(row) THEN schema
  ELSE AnalyzeEntries(AnalyzeEntry(schema, row[i][1], row[i][2], lookupCol, forced),
                      row, i + 1, lookupCol, forced)

AnalyzeRow(schema, row, lookupCol, forced) ==
  AnalyzeEntries(schema, row, 1, lookupCol, forced)

SetDefaultDataTypes(schema) ==
  [i \in 1..Len(schema) |->
     IF schema[i][2] = "null" THEN <<schema[i][1], "varchar(255)">> ELSE schema[i]]

\* Index i of the map (0-based in the source) is element i + 1 of the sequence.
CreateColumnIndexToDataTypeMap(schema, map) ==
  [i \in 1..(IF Len(map) > Len(schema) THEN Len(map) ELSE Len(schema)) |->
     IF i <= Len(schema) THEN schema[i][2] ELSE map[i]]

\* The forceTextColumns object built from the option: the set of its keys.
ParseForceTextColumns(option) ==
  IF option = <<>> THEN {}
  ELSE {ToLowerCase(Trim(Split(option, ",")[i])) : i \in 1..Len(Split(option, ","))}

(***************************************************************************)
(* The encoding pass (escapeSingleQuotes, quoteIfNeeded, addLookupValue,   *)
(* foreignKeyFor, generateInsertStatement).                                *)
(***************************************************************************)
\* value.replace(/'/g, "''")
RECURSIVE EscapeSingleQuotes(_)
EscapeSingleQuotes(value) ==
  IF value = <<>> THEN <<>>
  ELSE (IF value[1] = "'" THEN <<"'", "'">> ELSE <<value[1]>>)
         \o EscapeSingleQuotes(Tail(value))

needQuotes == {"varchar(100)", "varchar(255)", "date", "datetime"}

\* A faulty variant of QuoteIfNeeded (no doubling of single quotes), which property C8 must reject.
QuoteIfNeededNoEscape(value, datatype) ==
  IF value = <<>> THEN <<"n", "u", "l", "l">>
  ELSE IF datatype \in needQuotes THEN <<"'">> \o value \o <<"'">>
  ELSE value

QuoteIfNeeded(value, datatype) ==
  IF value = <<>> THEN <<"n", "u", "l", "l">>
  ELSE IF datatype \in needQuotes THEN <<"'">> \o EscapeSingleQuotes(value) \o <<"'">>
  ELSE value

\* columnIndexToDataTypeMap[index], index 0-based.
TypeAt(map, index) == IF index + 1 <= Len(map) THEN map[index + 1] ELSE "undefined"

\* row[name] used as a property key: the string "undefined" when the row has
\* no such field.
Undefined == <<"u", "n", "d", "e", "f", "i", "n", "e", "d">>

KeyOf(row, name) == IF Has(row, name) THEN Get(row, name) ELSE Undefined

\* A faulty variant of AddLookupValue (ids start one too high), which property C5 must reject.
AddLookupValueSkipsOne(lookupValues, value, counter) == Put(lookupValues, value, counter + 1)

\* lookupTableValues[value] = lookupPkCounter++
AddLookupValue(lookupValues, value, counter) == Put(lookupValues, value, counter)

\* A faulty variant of WarnDuplicate (a key is reported at most once), which property C11 must reject.
WarnDuplicateOnce(warns, fkValues, key) ==
  IF Has(fkValues, key) /\ key \notin Range(warns) THEN Append(warns, key) ELSE warns

\* if (foreignKeyvalues[key]) console.warn("Found duplicate: " + key)
\* (a stored id is at least 1, hence truthy).
WarnDuplicate(warns, fkValues, key) ==
  IF Has(fkValues, key) THEN Append(warns, key) ELSE warns

\* A faulty variant of RecordForeignKey (the first matching row wins), which property C6 must reject.
RecordForeignKeyFirstWins(fkValues, key, id) ==
  IF Has(fkValues, key) THEN fkValues ELSE Put(fkValues, key, id)

\* foreignKeyvalues[key] = ++pkCounter
RecordForeignKey(fkValues, key, id) == Put(fkValues, key, id)

\* foreignKeyvalues[value] || "NULL", as it is joined into the tuple.
ForeignKeyFor(fkValues, value) ==
  IF Has(fkValues, value) THEN NumToStr(Get(fkValues, value)) ELSE <<"N", "U", "L", "L">>

\* The callback of generateInsertStatement's map, on field number index
\* (0-based) of the row.  st carries the lookup mapping and its counter, and
\* collects the rendered values, the tags they were rendered under and the
\* lookup ids substituted (0: none).
\* A lookup id, a number, is carried as its decimal string: it is never 0,
\* and every later use (moment, quoteIfNeeded, the template) reads the
\* number as that string.
EncodeField(st, rawKey, rawValue, index, a, map) ==
  LET isLookup == ToLowerCase(rawKey) = ToLowerCase(a.lookup)
      lookupValue == EscapeSingleQuotes(rawValue)
      lookupValues == IF isLookup /\ ~Has(st.lookupTableValues, lookupValue)
                        THEN AddLookupValue(st.lookupTableValues, lookupValue,
                                            st.lookupPkCounter)
                        ELSE st.lookupTableValues
      counter == IF isLookup /\ ~Has(st.lookupTableValues, lookupValue)
                   THEN st.lookupPkCounter + 1
                   ELSE st.lookupPkCounter
      id == IF isLookup THEN Get(lookupValues, lookupValue) ELSE 0
      value1 == IF isLookup THEN NumToStr(id) ELSE rawValue
      parsedDate == LooseParse(value1, FmtUsShortHH)
      value2 == IF TypeAt(map, index) = "datetime" /\ parsedDate.ok
                  THEN FormatIso(parsedDate)
                  ELSE value1
  IN [lookupTableValues |-> lookupValues,
      lookupPkCounter |-> counter,
      values |-> Append(st.values, QuoteIfNeeded(value2, TypeAt(map, index))),
      subst |-> Append(st.subst, id),
      tags |-> Append(st.tags, TypeAt(map, index))]

RECURSIVE EncodeFields(_, _, _, _, _)
EncodeFields(st, row, i, a, map) ==
  IF i > Len(row) THEN st
  ELSE EncodeFields(EncodeField(st, row[i][1], row[i][2], i - 1, a, map),
                    row, i + 1, a, map)

\* [values, primaryKeyValue, foreignKeyValue].filter((part) => part !== "")
InsertParts(values, primaryKeyValue, foreignKeyValue) ==
  SelectSeq(<<values, primaryKeyValue, foreignKeyValue>>, LAMBDA part : part # <<>>)

\* generateInsertStatement: the tuple pushed on rows, with the state it leaves.
GenerateInsertStatement(row, a, map, lookupValues, lookupCounter, pkCounter, fkValues) ==
  LET st == EncodeFields([lookupTableValues |-> lookupValues,
                          lookupPkCounter |-> lookupCounter,
                          values |-> <<>>, subst |-> <<>>, tags |-> <<>>],
                         row, 1, a, map)
      values == Join(st.values, <<",", " ">>)
      primaryKeyValue == IF a.addPrimaryKey THEN NumToStr(pkCounter) ELSE <<>>
      foreignKeyValue == IF a.addForeignKeyColumn # <<>>
                           THEN ForeignKeyFor(fkValues, KeyOf(row, a.addForeignKeyColumn))
                           ELSE <<>>
  IN [insertStatement |->
        <<"(">> \o Join(InsertParts(values, primaryKeyValue, foreignKeyValue), <<",", " ">>)
          \o <<")">>,
      values |-> st.values,
      subst |-> st.subst,
      tags |-> st.tags,
      primaryKeyValue |-> primaryKeyValue,
      foreignKeyValue |-> foreignKeyValue,
      lookupTableValues |-> st.lookupTableValues,
      lookupPkCounter |-> st.lookupPkCounter,
      primaryKeyCounter |-> IF a.addPrimaryKey THEN pkCounter + 1 ELSE pkCounter]

(***************************************************************************)
(* The statements written to the output file.  A statement is the record   *)
(* of the holes of its template: its kind, its table, its column list and  *)
(* its tuples.                                                             *)
(***************************************************************************)
Statement(kind, tbl, columns, tuples) ==
  [kind |-> kind, table |-> tbl, columns |-> columns, tuples |-> tuples]

\* generateDropTableStatement: nothing is written when the option is off.
GenerateDropTableStatement(a, tbl) ==
  IF a.dropTable THEN <<Statement("DROP", tbl, <<>>, <<>>)>> ELSE <<>>

\* createLookupTable: the statements it appends.
CreateLookupTable(a) ==
  GenerateDropTableStatement(a, "lookup")
    \o <<Statement("CREATE", "lookup",
                   << <<<<"i", "d">>, "INT AUTO_INCREMENT PRIMARY KEY">>,
                      <<<<"v", "a", "l", "u", "e">>, "VARCHAR(100)">> >>, <<>>)>>

\* generateCreateTableStatement: the schema it leaves (the id and foreign-key
\* columns are written into tableSchema).  The PRIMARY KEY marker of
\* primaryKeyColumn and the blank columns only change the statement's text.
SchemaWithKeys(schema, a) ==
  LET s1 == IF a.addPrimaryKey
              THEN Put(schema, <<"i", "d">>, "INT AUTO_INCREMENT PRIMARY KEY")
              ELSE schema
  IN IF a.addForeignKeyColumn # <<>>
       THEN Put(s1, a.addForeignKeyColumn \o <<"_", "f", "k">>, "INT")
       ELSE s1

GenerateCreateTableStatement(schema, a) ==
  Statement("CREATE", "main", SchemaWithKeys(schema, a), <<>>)

ExtractColumnsAsList(schema) == Keys(schema)

\* insertRows: one statement per batch of sqlbatchsize tuples, from 0-based
\* offset i on.
RECURSIVE InsertBatches(_, _, _, _)
InsertBatches(columnsList, buffer, i, batch) ==
  IF i < Len(buffer)
    THEN <<Statement("INSERT", "main", columnsList,
                     SubSeq(buffer, i + 1,
                            IF i + batch < Len(buffer) THEN i + batch ELSE Len(buffer)))>>
           \o InsertBatches(columnsList, buffer, i + batch, batch)
    ELSE <<>>

\* A faulty variant of InsertRows (the final partial batch is dropped), which property C3 must reject.
InsertRowsSkipsTail(columnsList, buffer, batch) ==
  InsertBatches(columnsList, SubSeq(buffer, 1, (Len(buffer) \div batch) * batch), 0, batch)

InsertRows(columnsList, buffer, batch) == InsertBatches(columnsList, buffer, 0, batch)

\* generateLookupTableInsertStatements: one statement per key of the mapping.
GenerateLookupTableInsertStatements(lookupValues) ==
  [i \in 1..Len(lookupValues) |->
     Statement("INSERT", "lookup", <<<<"i", "d">>, <<"v", "a", "l", "u", "e">>>>,
               << <<"(">> \o NumToStr(lookupValues[i][2]) \o <<",", " ", "'">>
                    \o EscapeSingleQuotes(lookupValues[i][1]) \o <<"'", ")">> >>)]

\* A faulty variant of EndOutput (lookup INSERTs written after the main table's), which property C2 must reject.
EndOutputLookupLast(a, lookupCol, lookupValues, schema, buffer) ==
  GenerateDropTableStatement(a, "main")
    \o <<GenerateCreateTableStatement(schema, a)>>
    \o InsertRows(ExtractColumnsAsList(SchemaWithKeys(schema, a)), buffer, a.sqlbatchsize)
    \o (IF lookupCol # <<>> THEN GenerateLookupTableInsertStatements(lookupValues) ELSE <<>>)

\* What the "end" handler of readCSVFile appends to the output file.
EndOutput(a, lookupCol, lookupValues, schema, buffer) ==
  (IF lookupCol # <<>> THEN GenerateLookupTableInsertStatements(lookupValues) ELSE <<>>)
    \o GenerateDropTableStatement(a, "main")
    \o <<GenerateCreateTableStatement(schema, a)>>
    \o InsertRows(ExtractColumnsAsList(SchemaWithKeys(schema, a)), buffer, a.sqlbatchsize)

\* The guard of the top-level dispatch: either foreign-key option is given.
ForeignKeyRequested(a) == a.addForeignKeyToFile # <<>> \/ a.addForeignKeyColumn # <<>>

\* A faulty variant of ForeignKeyArgsMissing (fatal only when both options are missing), which property C7 must reject.
ForeignKeyArgsBothMissing(a) == a.addForeignKeyColumn = <<>> /\ a.addForeignKeyToFile = <<>>

\* checkForeignKeyArgs: whether it ends the process with exit code 1.
ForeignKeyArgsMissing(a) == a.addForeignKeyColumn = <<>> \/ a.addForeignKeyToFile = <<>>

(***************************************************************************)
(* The inputs of a run: the options and the two files.  A file is the      *)
(* sequence of row objects its parser delivers (a row shorter than the     *)
(* header lacks the trailing fields).                                      *)
(***************************************************************************)
DefaultArgv ==
  [lookup |-> <<>>, forceTextColumns |-> <<>>, addPrimaryKey |-> TRUE,
   addForeignKeyToFile |-> <<>>, addForeignKeyColumn |-> <<>>,
   sqlbatchsize |-> 1000, dropTable |-> TRUE]

\* Two columns of mixed values; the first two rows are the end-to-end scenario.
TypeRows ==
  { << <<<<"a">>, <<"1">>>>, <<<<"b">>, <<"2", "0", "2", "1", "-", "0", "1", "-", "0", "1", " ", "1", "0", ":", "0", "0", ":", "0", "0">>>> >>,
    << <<<<"a">>, <<"2", "0", "0">>>>, <<<<"b">>, <<>>>> >>,
    << <<<<"a">>, <<>>>>, <<<<"b">>, <<"i", "t", "'", "s">>>> >>,
    << <<<<"a">>, <<"1", ".", "5">>>>, <<<<"b">>, <<"2", "1", "4", "7", "4", "8", "3", "6", "4", "8">>>> >>,
    << <<<<"a">>, <<"2", "0", "2", "1", "-", "0", "1", "-", "0", "1">>>>, <<<<"b">>, <<"1", "/", "2", "/", "2", "1", " ", "1", "0", ":", "0", "0">>>> >>,
    << <<<<"a">>, <<"-", "7">>>> >> }

LookupRows ==
  { << <<<<"C", "a", "t">>, <<"r", "e", "d">>>> >>,
    << <<<<"C", "a", "t">>, <<"b", "l", "u", "e">>>> >>,
    << <<<<"C", "a", "t">>, <<"i", "t", "'", "s">>>> >> }

JoinRows ==
  { << <<<<"a">>, <<"1">>>>, <<<<"k">>, <<"x">>>> >>,
    << <<<<"a">>, <<"2">>>>, <<<<"k">>, <<"y">>>> >>,
    << <<<<"a">>, <<"3">>>> >> }

SecondFileRows ==
  { << <<<<"k">>, <<"x">>>> >>,
    << <<<<"k">>, <<"y">>>> >> }

ForcedRows ==
  { << <<<<"a">>, <<"1">>>>, <<<<"B">>, <<"7">>>> >>,
    << <<<<"a">>, <<"x">>>>, <<<<"B">>, <<>>>> >>,
    << <<<<"a">>, <<"2">>>> >> }

\* A header with a column named id and two names that differ only in case;
\* the second row carries one field more than the header (the parser names
\* it _3).
ClashRows ==
  { << <<<<"i", "d">>, <<"7">>>>, <<<<"A">>, <<"x">>>>, <<<<"a">>, <<"2">>>> >>,
    << <<<<"i", "d">>, <<"8">>>>, <<<<"A">>, <<"y">>>>, <<<<"a">>, <<"3">>>>,
       <<<<"_", "3">>, <<"z">>>> >> }

Scenario(a, mainRows, secondRows) == [argv |-> a, rows |-> mainRows, fkRows |-> secondRows]

Scenarios ==
  { Scenario([DefaultArgv EXCEPT !.addPrimaryKey = FALSE], TypeRows, {}) }
  \cup { Scenario([DefaultArgv EXCEPT !.lookup = l, !.sqlbatchsize = 2], LookupRows, {}) :
           l \in {<<"c", "a", "t">>, <<"C", "a", "t">>, <<"z", "z">>} }
  \cup { Scenario([DefaultArgv EXCEPT !.addForeignKeyToFile = <<"f", "2">>,
                                      !.addForeignKeyColumn = <<"k">>,
                                      !.sqlbatchsize = 1], JoinRows, SecondFileRows) }
  \cup { Scenario([DefaultArgv EXCEPT !.addForeignKeyToFile = <<"f", "2">>],
                  { << <<<<"a">>, <<"1">>>>, <<<<"k">>, <<"x">>>> >> }, { << <<<<"k">>, <<"x">>>> >> }),
         Scenario([DefaultArgv EXCEPT !.addForeignKeyColumn = <<"k">>, !.lookup = <<"a">>],
                  { << <<<<"a">>, <<"1">>>>, <<<<"k">>, <<"x">>>> >> }, { << <<<<"k">>, <<"x">>>> >> }) }
  \cup { Scenario([DefaultArgv EXCEPT !.forceTextColumns = f, !.addPrimaryKey = FALSE,
                                      !.dropTable = FALSE, !.sqlbatchsize = 3],
                  ForcedRows, {}) :
           f \in {<<" ", "B", ",", " ", "z", "z">>, <<"z", "z">>, <<"a", ",", "b">>} }
  \cup { Scenario(DefaultArgv, ClashRows, {}) }
  \cup { Scenario([DefaultArgv EXCEPT !.forceTextColumns = <<"b">>, !.lookup = <<"b">>,
                                      !.addPrimaryKey = FALSE, !.dropTable = FALSE],
                  ForcedRows, {}) }

(***************************************************************************)
(* The state of a run.                                                     *)
(***************************************************************************)
VARIABLES
  argv,                      \* the parsed command line
  file,                      \* the rows of the input file
  fkFile,                    \* the rows of the file named by addForeignKeyToFile
  pc,                        \* "main", "loop" (event loop), "exit0", "exit1";
                             \* "call", "return" in the function-level specifications
  fkStream,                  \* the stream of computeForeignKeys
  anStream,                  \* the stream of analyzeAndProcessCSVFile
  encStream,                 \* the stream of readCSVFile
  fkRead,                    \* rows the foreign-key stream has delivered
  anRead,                    \* rows the analysis stream has delivered
  encRead,                   \* rows the encoding stream has delivered
  tableSchema,
  columnIndexToDataTypeMap,
  rows,
  primaryKeyCounter,
  lookupPkCounter,
  lookupTableValues,
  forceTextColumns,
  foreignKeyvalues,
  rowCount,                  \* local of analyzeAndProcessCSVFile
  pkCounter,                 \* local of computeForeignKeys
  outputFile,                \* the statements appended to the output file
  warnings,                  \* the keys console.warn has reported
  encoded,                   \* history: what generateInsertStatement did, per call
  readCSVFileCalls,          \* history: how many times readCSVFile has been called
  fnArgs,                    \* function-level specifications: the arguments
  fnResult                   \* function-level specifications: the result

vars ==
  <<argv, file, fkFile, pc, fkStream, anStream, encStream, fkRead, anRead, encRead,
    tableSchema, columnIndexToDataTypeMap, rows, primaryKeyCounter, lookupPkCounter,
    lookupTableValues, forceTextColumns, foreignKeyvalues, rowCount, pkCounter,
    outputFile, warnings, encoded,
                 readCSVFileCalls, fnArgs, fnResult>>

\* const lookupColumn = argv.lookup
lookupColumn == argv.lookup

\* The module-level declarations, before any statement has run.
Loaded ==
  /\ fkStream = "idle"
  /\ anStream = "idle"
  /\ encStream = "idle"
  /\ fkRead = 0
  /\ anRead = 0
  /\ encRead = 0
  /\ tableSchema = <<>>
  /\ columnIndexToDataTypeMap = <<>>
  /\ rows = <<>>
  /\ primaryKeyCounter = 1
  /\ lookupPkCounter = 1
  /\ lookupTableValues = <<>>
  /\ forceTextColumns = {}
  /\ foreignKeyvalues = <<>>
  /\ rowCount = 0
  /\ pkCounter = 0
  /\ outputFile = <<>>
  /\ warnings = <<>>
  /\ encoded = <<>>
  /\ readCSVFileCalls = 0

Init ==
  /\ \E sc \in Scenarios :
       /\ argv = sc.argv
       /\ file \in SeqsUpTo(sc.rows, MaxRows)
       /\ fkFile \in SeqsUpTo(sc.fkRows, MaxFkRows)
  /\ pc = "main"
  /\ Loaded
  /\ fnArgs = <<>>
  /\ fnResult = <<>>

(***************************************************************************)
(* The top-level statements of the script (lines 94-114).                  *)
(***************************************************************************)
\* A faulty variant of Main (andThen is called at once instead of from the
\* "end" handler of the second file), which property C12 must reject.
MainStartsAnalysisAtOnce ==
  /\ pc = "main"
  /\ outputFile' = outputFile \o (IF lookupColumn # <<>> THEN CreateLookupTable(argv) ELSE <<>>)
  /\ forceTextColumns' = ParseForceTextColumns(argv.forceTextColumns)
  /\ IF ForeignKeyRequested(argv)
       THEN IF ForeignKeyArgsMissing(argv)
              THEN pc' = "exit1" /\ UNCHANGED <<fkStream, anStream>>
              ELSE pc' = "loop" /\ fkStream' = "open" /\ anStream' = "open"
       ELSE pc' = "loop" /\ anStream' = "open" /\ UNCHANGED fkStream
  /\ UNCHANGED <<argv, file, fkFile, encStream, fkRead, anRead, encRead, tableSchema,
                 columnIndexToDataTypeMap, rows, primaryKeyCounter, lookupPkCounter,
                 lookupTableValues, foreignKeyvalues, rowCount, pkCounter, warnings,
                 encoded,
                 readCSVFileCalls, fnArgs, fnResult>>

Main ==
  /\ pc = "main"
  /\ outputFile' = outputFile \o (IF lookupColumn # <<>> THEN CreateLookupTable(argv) ELSE <<>>)
  /\ forceTextColumns' = ParseForceTextColumns(argv.forceTextColumns)
  /\ IF ForeignKeyRequested(argv)
       THEN IF ForeignKeyArgsMissing(argv)
              THEN pc' = "exit1" /\ UNCHANGED <<fkStream, anStream>>
              ELSE pc' = "loop" /\ fkStream' = "open" /\ UNCHANGED anStream
       ELSE pc' = "loop" /\ anStream' = "open" /\ UNCHANGED fkStream
  /\ UNCHANGED <<argv, file, fkFile, encStream, fkRead, anRead, encRead, tableSchema,
                 columnIndexToDataTypeMap, rows, primaryKeyCounter, lookupPkCounter,
                 lookupTableValues, foreignKeyvalues, rowCount, pkCounter, warnings,
                 encoded,
                 readCSVFileCalls, fnArgs, fnResult>>

(***************************************************************************)
(* computeForeignKeys: the "data" and "end" handlers.                      *)
(***************************************************************************)
FkData ==
  /\ pc = "loop"
  /\ fkStream = "open"
  /\ fkRead < Len(fkFile)
  /\ LET key == KeyOf(fkFile[fkRead + 1], argv.addForeignKeyColumn) IN
       /\ warnings' = WarnDuplicate(warnings, foreignKeyvalues, key)
       /\ foreignKeyvalues' = RecordForeignKey(foreignKeyvalues, key, pkCounter + 1)
  /\ pkCounter' = pkCounter + 1
  /\ fkRead' = fkRead + 1
  /\ UNCHANGED <<argv, file, fkFile, pc, fkStream, anStream, encStream, anRead, encRead,
                 tableSchema, columnIndexToDataTypeMap, rows, primaryKeyCounter,
                 lookupPkCounter, lookupTableValues, forceTextColumns, rowCount,
                 outputFile, encoded,
                 readCSVFileCalls, fnArgs, fnResult>>

\* andThen() is analyzeAndProcessCSVFile.
FkEnd ==
  /\ pc = "loop"
  /\ fkStream = "open"
  /\ fkRead = Len(fkFile)
  /\ fkStream' = "ended"
  /\ anStream' = "open"
  /\ rowCount' = 0
  /\ UNCHANGED <<argv, file, fkFile, pc, encStream, fkRead, anRead, encRead, tableSchema,
                 columnIndexToDataTypeMap, rows, primaryKeyCounter, lookupPkCounter,
                 lookupTableValues, forceTextColumns, foreignKeyvalues, pkCounter,
                 outputFile, warnings, encoded,
                 readCSVFileCalls, fnArgs, fnResult>>

\* A faulty variant of Delivers (a destroyed stream goes on delivering the
\* rows that follow), which property C13 must reject.
DeliversAfterDestroy(stream) == stream \in {"open", "destroyed"}

\* Whether a stream still emits "data" events: not after readStream.destroy().
Delivers(stream) == stream = "open"

(***************************************************************************)
(* analyzeAndProcessCSVFile: the "data" handler; the stream has no "end"   *)
(* handler.  A destroyed stream delivers no further row.                   *)
(***************************************************************************)
AnalysisData ==
  /\ pc = "loop"
  /\ Delivers(anStream)
  /\ anRead < Len(file)
  /\ anRead' = anRead + 1
  /\ rowCount' = rowCount + 1
  /\ IF rowCount < SampleCap
       THEN /\ tableSchema' = AnalyzeRow(tableSchema, file[anRead + 1], lookupColumn,
                                         forceTextColumns)
            /\ UNCHANGED <<anStream, encStream, columnIndexToDataTypeMap, readCSVFileCalls>>
       ELSE /\ anStream' = "destroyed"
            /\ tableSchema' = SetDefaultDataTypes(tableSchema)
            /\ columnIndexToDataTypeMap' =
                 CreateColumnIndexToDataTypeMap(SetDefaultDataTypes(tableSchema),
                                                columnIndexToDataTypeMap)
            /\ encStream' = "open"
            /\ readCSVFileCalls' = readCSVFileCalls + 1
  /\ UNCHANGED <<argv, file, fkFile, pc, fkStream, fkRead, encRead, rows,
                 primaryKeyCounter, lookupPkCounter, lookupTableValues, forceTextColumns,
                 foreignKeyvalues, pkCounter, outputFile, warnings, encoded, fnArgs,
                 fnResult>>

AnalysisEnd ==
  /\ pc = "loop"
  /\ anStream = "open"
  /\ anRead = Len(file)
  /\ anStream' = "ended"
  /\ UNCHANGED <<argv, file, fkFile, pc, fkStream, encStream, fkRead, anRead, encRead,
                 tableSchema, columnIndexToDataTypeMap, rows, primaryKeyCounter,
                 lookupPkCounter, lookupTableValues, forceTextColumns, foreignKeyvalues,
                 rowCount, pkCounter, outputFile, warnings, encoded,
                 readCSVFileCalls, fnArgs, fnResult>>

(***************************************************************************)
(* readCSVFile: the "data" and "end" handlers.                             *)
(***************************************************************************)
EncodeData ==
  /\ pc = "loop"
  /\ encStream = "open"
  /\ encRead < Len(file)
  /\ LET r == GenerateInsertStatement(file[encRead + 1], argv, columnIndexToDataTypeMap,
                                      lookupTableValues, lookupPkCounter,
                                      primaryKeyCounter, foreignKeyvalues)
     IN /\ rows' = Append(rows, r.insertStatement)
        /\ lookupTableValues' = r.lookupTableValues
        /\ lookupPkCounter' = r.lookupPkCounter
        /\ primaryKeyCounter' = r.primaryKeyCounter
        /\ encoded' = Append(encoded,
                             [src |-> encRead + 1, values |-> r.values, subst |-> r.subst,
                              tags |-> r.tags,
                              primaryKeyValue |-> r.primaryKeyValue,
                              foreignKeyValue |-> r.foreignKeyValue])
  /\ encRead' = encRead + 1
  /\ UNCHANGED <<argv, file, fkFile, pc, fkStream, anStream, encStream, fkRead, anRead,
                 tableSchema, columnIndexToDataTypeMap, forceTextColumns,
                 foreignKeyvalues, rowCount, pkCounter, outputFile, warnings,
                 readCSVFileCalls, fnArgs, fnResult>>

EncodeEnd ==
  /\ pc = "loop"
  /\ encStream = "open"
  /\ encRead = Len(file)
  /\ encStream' = "ended"
  /\ outputFile' = outputFile
                     \o EndOutput(argv, lookupColumn, lookupTableValues, tableSchema, rows)
  /\ tableSchema' = SchemaWithKeys(tableSchema, argv)
  /\ UNCHANGED <<argv, file, fkFile, pc, fkStream, anStream, fkRead, anRead, encRead,
                 columnIndexToDataTypeMap, rows, primaryKeyCounter, lookupPkCounter,
                 lookupTableValues, forceTextColumns, foreignKeyvalues, rowCount,
                 pkCounter, warnings, encoded,
                 readCSVFileCalls, fnArgs, fnResult>>

\* No stream is open and no handler is pending: the process ends with code 0.
ProcessExit ==
  /\ pc = "loop"
  /\ fkStream # "open"
  /\ anStream # "open"
  /\ encStream # "open"
  /\ pc' = "exit0"
  /\ UNCHANGED <<argv, file, fkFile, fkStream, anStream, encStream, fkRead, anRead,
                 encRead, tableSchema, columnIndexToDataTypeMap, rows, primaryKeyCounter,
                 lookupPkCounter, lookupTableValues, forceTextColumns, foreignKeyvalues,
                 rowCount, pkCounter, outputFile, warnings, encoded,
                 readCSVFileCalls, fnArgs, fnResult>>

Next ==
  \/ Main
  \/ FkData
  \/ FkEnd
  \/ AnalysisData
  \/ AnalysisEnd
  \/ EncodeData
  \/ EncodeEnd
  \/ ProcessExit

Spec == Init /\ [][Next]_vars

(***************************************************************************)
(* Function-level specifications: insertRows and quoteIfNeeded applied to  *)
(* arguments drawn from bounded sets.                                      *)
(***************************************************************************)
BufferTuples == {<<"(", "1", ")">>, <<"(", "2", ")">>}

InitInsertRows ==
  /\ argv = DefaultArgv
  /\ file = <<>>
  /\ fkFile = <<>>
  /\ pc = "call"
  /\ Loaded
  /\ fnArgs \in [buffer : SeqsUpTo(BufferTuples, MaxBuffer), batch : 1..MaxBatch]
  /\ fnResult = <<>>

CallInsertRows ==
  /\ pc = "call"
  /\ fnResult' = InsertRows(<<<<"a">>>>, fnArgs.buffer, fnArgs.batch)
  /\ pc' = "return"
  /\ UNCHANGED <<argv, file, fkFile, fkStream, anStream, encStream, fkRead, anRead,
                 encRead, tableSchema, columnIndexToDataTypeMap, rows, primaryKeyCounter,
                 lookupPkCounter, lookupTableValues, forceTextColumns, foreignKeyvalues,
                 rowCount, pkCounter, outputFile, warnings, encoded,
                 readCSVFileCalls, fnArgs>>

NextInsertRows == CallInsertRows

SpecInsertRows == InitInsertRows /\ [][NextInsertRows]_vars

QuoteChars == {"'", "a", "0"}

QuoteTypes == Range(dataTypePriority) \cup {"undefined"}

InitQuoteIfNeeded ==
  /\ argv = DefaultArgv
  /\ file = <<>>
  /\ fkFile = <<>>
  /\ pc = "call"
  /\ Loaded
  /\ fnArgs \in [value : SeqsUpTo(QuoteChars, MaxValueLen), datatype : QuoteTypes]
  /\ fnResult = <<>>

CallQuoteIfNeeded ==
  /\ pc = "call"
  /\ fnResult' = QuoteIfNeeded(fnArgs.value, fnArgs.datatype)
  /\ pc' = "return"
  /\ UNCHANGED <<argv, file, fkFile, fkStream, anStream, encStream, fkRead, anRead,
                 encRead, tableSchema, columnIndexToDataTypeMap, rows, primaryKeyCounter,
                 lookupPkCounter, lookupTableValues, forceTextColumns, foreignKeyvalues,
                 rowCount, pkCounter, outputFile, warnings, encoded,
                 readCSVFileCalls, fnArgs>>

NextQuoteIfNeeded == CallQuoteIfNeeded

SpecQuoteIfNeeded == InitQuoteIfNeeded /\ [][NextQuoteIfNeeded]_vars

(***************************************************************************)
(* Vocabulary of the properties.                                           *)
(***************************************************************************)
\* The statements of one kind written for one table, in output order.
Written(kind, tbl) ==
  SelectSeq(outputFile, LAMBDA st : st.kind = kind /\ st.table = tbl)

\* The positions of the output that hold a statement of the table.
PositionsOf(tbl) == {i \in 1..Len(outputFile) : outputFile[i].table = tbl}

PositionsOfKind(kind, tbl) ==
  {i \in 1..Len(outputFile) : outputFile[i].table = tbl /\ outputFile[i].kind = kind}

RECURSIVE Flatten(_)
Flatten(seqs) == IF seqs = <<>> THEN <<>> ELSE seqs[1] \o Flatten(Tail(seqs))

\* The tuples of the main table's INSERT statements, in output order.
EmittedTuples == Flatten([i \in 1..Len(Written("INSERT", "main")) |->
                            Written("INSERT", "main")[i].tuples])

\* The rows the analysis pass has sampled so far.
Sampled == SubSeq(file, 1, IF anRead < SampleCap THEN anRead ELSE SampleCap)

\* The values the rows hold for a case-normalized column name.
ColumnValues(rws, col) ==
  UNION {{rws[i][j][2] : j \in {j \in 1..Len(rws[i]) : ToLowerCase(rws[i][j][1]) = col}} :
           i \in 1..Len(rws)}

\* The case-normalized column names the rows carry.
ColumnsOf(rws) ==
  UNION {{ToLowerCase(rws[i][j][1]) : j \in 1..Len(rws[i])} : i \in 1..Len(rws)}

\* The specificity order the specification states, least specific first.
SpecificityOrder ==
  <<"null", "int", "decimal(15, 5)", "date", "datetime", "varchar(100)", "varchar(255)">>

Rank(tag) == CHOOSE i \in 1..Len(SpecificityOrder) : SpecificityOrder[i] = tag

\* The most specific of a set of tags; null when the set is empty.
MaxTag(tags) ==
  IF tags = {} THEN "null"
  ELSE CHOOSE t \in tags : \A u \in tags : Rank(u) <= Rank(t)

\* The entries of a sequence without repetitions, in first-seen order.
RECURSIVE Distinct(_)
Distinct(s) ==
  IF s = <<>> THEN <<>>
  ELSE LET d == Distinct(SubSeq(s, 1, Len(s) - 1)) IN
       IF s[Len(s)] \in Range(d) THEN d ELSE Append(d, s[Len(s)])

\* Whether the encoder treats a source column as the lookup column.
IsLookupField(rawKey) == ToLowerCase(rawKey) = ToLowerCase(argv.lookup)

\* The raw values of the lookup column in the rows encoded so far, in order.
LookupValuesOfRow(row) ==
  SelectSeq([j \in 1..Len(row) |-> IF IsLookupField(row[j][1]) THEN <<row[j][2]>> ELSE <<>>],
            LAMBDA x : x # <<>>)

LookupValuesSeen ==
  Flatten([k \in 1..Len(encoded) |->
             [j \in 1..Len(LookupValuesOfRow(file[encoded[k].src])) |->
                LookupValuesOfRow(file[encoded[k].src])[j][1]]])

\* SQL's reading of an escaped text: each doubled quote is one quote; a
\* single quote on its own has no reading.
RECURSIVE Unescape(_)
Unescape(s) ==
  IF s = <<>> THEN <<>>
  ELSE IF s[1] = "'"
    THEN IF Len(s) >= 2 /\ s[2] = "'"
           THEN <<"'">> \o Unescape(SubSeq(s, 3, Len(s)))
           ELSE <<"unterminated">>
  ELSE <<s[1]>> \o Unescape(Tail(s))

CountQuotes(s) == Cardinality({i \in 1..Len(s) : s[i] = "'"})

(***************************************************************************)
(* C1.  Every run on a finite source of R >= 0 rows, R at or below the     *)
(* sampling cap included, has finalized the schema, run the encoding pass  *)
(* and written the CREATE TABLE statement and the tuples of all R rows     *)
(* when it ends; the two-row source of the end-to-end scenario gives the   *)
(* schema {a: int, b: datetime} and the tuples (1, '2021-01-01 10:00:00')  *)
(* and (200, null).                                                        *)
(***************************************************************************)
EndToEndSource ==
  << << <<<<"a">>, <<"1">>>>, <<<<"b">>, <<"2", "0", "2", "1", "-", "0", "1", "-", "0", "1", " ", "1", "0", ":", "0", "0", ":", "0", "0">>>> >>,
     << <<<<"a">>, <<"2", "0", "0">>>>, <<<<"b">>, <<>>>> >> >>

C1_EveryRunEmitsAllRows ==
  pc = "exit0" =>
    /\ encStream = "ended"
    /\ Len(columnIndexToDataTypeMap) = Cardinality(ColumnsOf(Sampled))
    /\ Len(Written("CREATE", "main")) = 1
    /\ Len(rows) = Len(file)
    /\ EmittedTuples = rows
    /\ (file = EndToEndSource /\ argv = [DefaultArgv EXCEPT !.addPrimaryKey = FALSE]) =>
         /\ Written("CREATE", "main")[1].columns = << <<<<"a">>, "int">>, <<<<"b">>, "datetime">> >>
         /\ EmittedTuples = <<<<"(", "1", ",", " ", "'", "2", "0", "2", "1", "-", "0", "1", "-", "0", "1", " ", "1", "0", ":", "0", "0", ":", "0", "0", "'", ")">>, <<"(", "2", "0", "0", ",", " ", "n", "u", "l", "l", ")">>>>

(***************************************************************************)
(* C2.  With a lookup column configured the output is ordered: the lookup  *)
(* table's DROP/CREATE, the main table's DROP/CREATE, the main table's     *)
(* INSERTs and, after all of those, one lookup-table INSERT per distinct   *)
(* lookup value; no lookup-table INSERT precedes a main-table statement.   *)
(* Stated as written (C2_LookupInsertsLast) and as the code orders the     *)
(* output (C2_LookupInsertsBeforeMain): the lookup-table INSERTs follow    *)
(* the lookup table's DROP/CREATE and precede every main-table statement.  *)
(***************************************************************************)
\* What both statements share: the lookup table's DROP/CREATE come first, the
\* main table's statements are DROP, CREATE, INSERTs in that order, and a
\* finished encoding pass has written one lookup INSERT per distinct value.
C2_Common ==
  /\ pc # "main" => SubSeq(outputFile, 1, Len(CreateLookupTable(argv))) = CreateLookupTable(argv)
  /\ \A i \in PositionsOfKind("INSERT", "lookup") : i > Len(CreateLookupTable(argv))
  /\ \A i \in PositionsOfKind("DROP", "main") :
       \A j \in PositionsOfKind("CREATE", "main") : i < j
  /\ \A i \in PositionsOfKind("CREATE", "main") :
       \A j \in PositionsOfKind("INSERT", "main") : i < j
  /\ encStream = "ended" =>
       /\ Len(Written("CREATE", "main")) = 1
       /\ Len(Written("INSERT", "lookup"))
            = Cardinality(UNION {{row[j][2] : j \in {j \in 1..Len(row) : IsLookupField(row[j][1])}} :
                                   row \in Range(file)})

C2_LookupInsertsLast ==
  lookupColumn # <<>> =>
    /\ C2_Common
    /\ \A i \in PositionsOfKind("INSERT", "lookup") : \A j \in PositionsOf("main") : j < i

C2_LookupInsertsBeforeMain ==
  lookupColumn # <<>> =>
    /\ C2_Common
    /\ \A i \in PositionsOfKind("INSERT", "lookup") : \A j \in PositionsOf("main") : i < j

C2_Witness ==
  /\ lookupColumn # <<>>
  /\ Len(Written("INSERT", "lookup")) = 2
  /\ Len(Written("INSERT", "main")) = 2
  /\ Len(Written("DROP", "main")) = 1

(***************************************************************************)
(* C3.  For a buffer of R tuples and a batch size B >= 1, insertRows       *)
(* gives ceil(R/B) statements; each carries B consecutive tuples in buffer *)
(* order, except the last, which carries R mod B (B when B divides R);     *)
(* none when R = 0; every tuple is in exactly one statement.               *)
(***************************************************************************)
C3_Batching ==
  pc = "return" =>
    LET R == Len(fnArgs.buffer)
        B == fnArgs.batch
        n == Len(fnResult)
    IN /\ n = (R + B - 1) \div B
       /\ R = 0 => fnResult = <<>>
       /\ \A s \in 1..n :
            /\ fnResult[s].kind = "INSERT"
            /\ Len(fnResult[s].tuples)
                 = (IF s < n THEN B ELSE IF R % B = 0 THEN B ELSE R % B)
            /\ \A t \in 1..Len(fnResult[s].tuples) :
                 fnResult[s].tuples[t] = fnArgs.buffer[(s - 1) * B + t]
       /\ Flatten([s \in 1..n |-> fnResult[s].tuples]) = fnArgs.buffer

C3_Witness ==
  /\ pc = "return"
  /\ Len(fnArgs.buffer) = 3
  /\ fnArgs.batch = 2
  /\ Len(fnResult) = 2
  /\ Len(fnResult[2].tuples) = 1

(***************************************************************************)
(* C4.  While rows are sampled (before null-defaulting), every column      *)
(* that is neither the lookup column nor a forced-text column has the tag  *)
(* that is the maximum, under null < int < decimal < date < datetime <     *)
(* varchar(100) < varchar(255), of the tags inferred from its non-empty    *)
(* sampled values, null when it has none; empty values change nothing.     *)
(***************************************************************************)
C4_TagIsMaxOfSampled ==
  anStream \in {"open", "ended"} =>
    \A col \in ColumnsOf(Sampled) :
      (col # ToLowerCase(argv.lookup) /\ col \notin forceTextColumns) =>
        /\ Has(tableSchema, col)
        /\ Get(tableSchema, col)
             = MaxTag({InferDataType(v) : v \in ColumnValues(Sampled, col) \ {<<>>}})

\* Column a sampled as 1.5, 1 and column b as 2147483648, a datetime: in both
\* the less specific value came last.
C4_Witness ==
  /\ anStream = "open"
  /\ anRead = 2
  /\ file[1][1] = <<<<"a">>, <<"1", ".", "5">>>>
  /\ file[2][1] = <<<<"a">>, <<"1">>>>
  /\ Get(tableSchema, <<"a">>) = "decimal(15, 5)"
  /\ Get(tableSchema, <<"b">>) = "varchar(100)"

(***************************************************************************)
(* C5.  The lookup mapping is stable and dense: the N distinct values seen *)
(* so far have the ids 1..N in first-seen order, and every occurrence of a *)
(* value is substituted with the id of that value (red, blue, red gives    *)
(* red = 1, blue = 2, the substituted values 1, 2, 1 and two lookup-table  *)
(* INSERTs).                                                               *)
(***************************************************************************)
C5_LookupStableAndDense ==
  LET seen == LookupValuesSeen
      d == Distinct(seen)
      substituted == Flatten([k \in 1..Len(encoded) |->
                                SelectSeq(encoded[k].subst, LAMBDA id : id # 0)])
  IN /\ Len(lookupTableValues) = Len(d)
     /\ \A i \in 1..Len(d) :
          /\ lookupTableValues[i][1] = EscapeSingleQuotes(d[i])
          /\ lookupTableValues[i][2] = i
     /\ Len(substituted) = Len(seen)
     /\ \A k \in 1..Len(seen) :
          substituted[k] = CHOOSE i \in 1..Len(d) : d[i] = seen[k]
     /\ lookupPkCounter = Len(d) + 1

C5_Witness ==
  /\ pc = "exit0"
  /\ LookupValuesSeen = <<<<"r", "e", "d">>, <<"b", "l", "u", "e">>, <<"r", "e", "d">>, <<"r", "e", "d">>>>
  /\ [k \in 1..Len(encoded) |-> encoded[k].subst] = << <<1>>, <<2>>, <<1>>, <<1>> >>
  /\ lookupTableValues = << <<<<"r", "e", "d">>, 1>>, <<<<"b", "l", "u", "e">>, 2>> >>
  /\ Len(Written("INSERT", "lookup")) = 2
  /\ rows[2] = <<"(", "2", ",", " ", "2", ")">>

(***************************************************************************)
(* C6.  With foreign-key resolution on, the foreign-key value appended to  *)
(* the tuple of every main-file row is the 1-based index of the last row   *)
(* of the second file whose join-column value equals the main row's, and   *)
(* the literal NULL when the second file has no such row.                  *)
(***************************************************************************)
\* The rows of the second file whose join value is the main row's.
JoinMatches(row) ==
  {i \in 1..Len(fkFile) :
     /\ Has(row, argv.addForeignKeyColumn)
     /\ Has(fkFile[i], argv.addForeignKeyColumn)
     /\ Get(fkFile[i], argv.addForeignKeyColumn) = Get(row, argv.addForeignKeyColumn)}

ExpectedForeignKey(row) ==
  IF JoinMatches(row) = {} THEN <<"N", "U", "L", "L">>
  ELSE NumToStr(CHOOSE i \in JoinMatches(row) : \A j \in JoinMatches(row) : j <= i)

EndsWith(s, suffix) ==
  /\ Len(s) >= Len(suffix)
  /\ SubSeq(s, Len(s) - Len(suffix) + 1, Len(s)) = suffix

C6_ForeignKeyIsLastMatch ==
  (argv.addForeignKeyColumn # <<>> /\ argv.addForeignKeyToFile # <<>>) =>
    /\ Len(rows) = Len(encoded)
    /\ \A k \in 1..Len(encoded) :
         /\ encoded[k].foreignKeyValue = ExpectedForeignKey(file[encoded[k].src])
         /\ EndsWith(rows[k], <<",", " ">> \o ExpectedForeignKey(file[encoded[k].src]) \o <<")">>)

\* The second file holds x twice: the row joining on x gets 2, the row
\* joining on y and the row without the join column get NULL.
C6_Witness ==
  /\ Len(fkFile) = 2
  /\ fkFile[1] = fkFile[2]
  /\ Len(encoded) = 4
  /\ \E k \in 1..4 : encoded[k].foreignKeyValue = <<"2">>
  /\ \E k \in 1..4 :
       /\ encoded[k].foreignKeyValue = <<"N", "U", "L", "L">>
       /\ Has(file[encoded[k].src], argv.addForeignKeyColumn)
  /\ \E k \in 1..4 :
       /\ encoded[k].foreignKeyValue = <<"N", "U", "L", "L">>
       /\ ~Has(file[encoded[k].src], argv.addForeignKeyColumn)

(***************************************************************************)
(* C7.  With exactly one of the foreign-key file and the join column       *)
(* given, the run ends with exit code 1 before any row of either file is   *)
(* processed: no row callback has fired and the foreign-key mapping, the   *)
(* column schema, the lookup mapping and the row buffer are empty.         *)
(***************************************************************************)
ExactlyOneForeignKeyArg ==
  (argv.addForeignKeyToFile = <<>>) # (argv.addForeignKeyColumn = <<>>)

C7_MisconfigurationIsFatal ==
  (ExactlyOneForeignKeyArg /\ pc # "main") =>
    /\ pc = "exit1"
    /\ fkRead = 0 /\ anRead = 0 /\ encRead = 0
    /\ fkStream = "idle" /\ anStream = "idle" /\ encStream = "idle"
    /\ foreignKeyvalues = <<>>
    /\ tableSchema = <<>>
    /\ lookupTableValues = <<>>
    /\ rows = <<>>

C7_Witness ==
  /\ pc = "exit1"
  /\ argv.addForeignKeyToFile = <<>>
  /\ argv.addForeignKeyColumn # <<>>
  /\ file # <<>>
  /\ fkFile # <<>>

(***************************************************************************)
(* C8.  quoteIfNeeded renders an empty value as the unquoted null for      *)
(* every column type; a non-empty value of a varchar(100), varchar(255),   *)
(* date or datetime column inside one pair of single quotes, each of its n *)
(* single quotes doubled (2n quote characters there) and no other          *)
(* character altered; a non-empty value of an int or decimal column bare   *)
(* and unchanged.                                                          *)
(***************************************************************************)
C8_QuoteIfNeeded ==
  pc = "return" =>
    LET v == fnArgs.value
        t == fnArgs.datatype
        r == fnResult
        inner == SubSeq(r, 2, Len(r) - 1)
    IN /\ v = <<>> => r = <<"n", "u", "l", "l">>
       /\ (v # <<>> /\ t \in {"varchar(100)", "varchar(255)", "date", "datetime"}) =>
            /\ Len(r) = Len(v) + CountQuotes(v) + 2
            /\ r[1] = "'"
            /\ r[Len(r)] = "'"
            /\ CountQuotes(inner) = 2 * CountQuotes(v)
            /\ Unescape(inner) = v
       /\ (v # <<>> /\ t \in {"int", "decimal(15, 5)"}) => r = v

C8_Witness ==
  /\ pc = "return"
  /\ fnArgs.value = <<"'", "a", "'">>
  /\ fnArgs.datatype = "varchar(100)"
  /\ fnResult = <<"'", "'", "'", "a", "'", "'", "'">>

(***************************************************************************)
(* C9.  Whenever the row encoder treats a source column as the lookup      *)
(* column and substitutes its values with surrogate ids, that column's tag *)
(* in the finalized schema is int, for every spelling of the configured    *)
(* lookup name and whatever values were sampled.                           *)
(***************************************************************************)
C9_LookupColumnIsInt ==
  \A k \in 1..Len(encoded) :
    \A j \in 1..Len(encoded[k].subst) :
      encoded[k].subst[j] # 0 =>
        /\ Has(tableSchema, ToLowerCase(file[encoded[k].src][j][1]))
        /\ Get(tableSchema, ToLowerCase(file[encoded[k].src][j][1])) = "int"

(***************************************************************************)
(* C10.  A forced-text column that appears in the source has the tag       *)
(* short-text from the first sampled row on and in the finalized schema,   *)
(* whatever its values; a forced-text name matching no header changes      *)
(* nothing and raises no error.                                            *)
(* Stated as written, with short-text = varchar(100)                       *)
(* (C10_ForcedTextIsShortText), and as the code has it                     *)
(* (C10_ForcedTextIsLongText): the tag is varchar(255), from the first     *)
(* sampled row that carries the column, for a forced-text column that is   *)
(* not also the lookup column.                                             *)
(***************************************************************************)
\* The forced-text names of the option that some row of the source carries.
MatchedForcedColumns == ParseForceTextColumns(argv.forceTextColumns) \cap ColumnsOf(file)

\* The schema the sampled rows give when only the matched names are forced.
RECURSIVE SchemaOf(_, _, _)
SchemaOf(rws, lookupCol, forced) ==
  IF rws = <<>> THEN <<>>
  ELSE AnalyzeRow(SchemaOf(SubSeq(rws, 1, Len(rws) - 1), lookupCol, forced),
                  rws[Len(rws)], lookupCol, forced)

C10_ForcedText(tag) ==
  /\ \A col \in forceTextColumns \cap ColumnsOf(Sampled) :
       col # lookupColumn =>
         /\ Has(tableSchema, col)
         /\ Get(tableSchema, col) = tag
         /\ encStream # "idle" =>
              columnIndexToDataTypeMap[IndexOf(Keys(tableSchema), col) + 1] = tag
  /\ anStream \in {"open", "ended"} =>
       tableSchema = SchemaOf(Sampled, lookupColumn, MatchedForcedColumns)
  /\ ~ForeignKeyRequested(argv) => pc # "exit1"

C10_ForcedTextIsShortText == C10_ForcedText("varchar(100)")

C10_ForcedTextIsLongText == C10_ForcedText("varchar(255)")

\* Column b is forced and holds 7, which inference would tag int; the forced
\* name zz matches no header.
C10_Witness ==
  /\ forceTextColumns = {<<"b">>, <<"z", "z">>}
  /\ lookupColumn = <<>>
  /\ anStream = "open"
  /\ anRead = 2
  /\ ~Has(file[1], <<"B">>)
  /\ Has(file[2], <<"B">>)
  /\ Get(file[2], <<"B">>) = <<"7">>
  /\ Get(tableSchema, <<"b">>) = "varchar(255)"

(***************************************************************************)
(* C11: duplicate warnings of the foreign-key pre-scan.                    *)
(***************************************************************************)
\* The join values of the first n rows of the second file, as the "data"
\* handler of computeForeignKeys reads them.
ScannedKeys(n) == [i \in 1..n |-> KeyOf(fkFile[i], argv.addForeignKeyColumn)]

Occurrences(s, x) == Cardinality({i \in 1..Len(s) : s[i] = x})

\* The elements of the first n places of s that repeat an earlier element,
\* in order.
RECURSIVE RepeatsUpTo(_, _)
RepeatsUpTo(s, n) ==
  IF n = 0 THEN <<>>
  ELSE IF \E j \in 1..(n - 1) : s[j] = s[n]
         THEN Append(RepeatsUpTo(s, n - 1), s[n])
         ELSE RepeatsUpTo(s, n - 1)

\* C11 (as stated): once the second file has been scanned, every distinct
\* join value that occurs more than once in it has been reported exactly
\* once, and a value that occurs once has not been reported.
C11_OneWarningPerDuplicateValue ==
  fkStream = "ended" =>
    \A k \in Range(ScannedKeys(Len(fkFile))) \cup Range(warnings) :
      Occurrences(warnings, k) =
        IF Occurrences(ScannedKeys(Len(fkFile)), k) > 1 THEN 1 ELSE 0

\* C11 (amended): at every point of the scan the warnings are, in order, the
\* join values of the scanned rows that repeat an earlier row's value, so a
\* value that has occurred n times has been reported n - 1 times; every row
\* gets its index whatever was reported, and the scan ends only after the
\* last row.
C11_OneWarningPerRepeatedOccurrence ==
  fkStream \in {"open", "ended"} =>
    /\ warnings = RepeatsUpTo(ScannedKeys(fkRead), fkRead)
    /\ \A k \in Range(ScannedKeys(fkRead)) :
         Occurrences(warnings, k) = Occurrences(ScannedKeys(fkRead), k) - 1
    /\ pkCounter = fkRead
    /\ fkStream = "ended" => fkRead = Len(fkFile)

\* The scan of a second file in which one join value occurs three times has
\* ended, and the value has been reported twice.
C11_Witness ==
  /\ fkStream = "ended"
  /\ ScannedKeys(Len(fkFile)) = <<<<"x">>, <<"x">>, <<"x">>>>
  /\ warnings = <<<<"x">>, <<"x">>>>

(***************************************************************************)
(* C12: the three stages are strictly sequential.                          *)
(***************************************************************************)
\* Both foreign-key options are given, so the second file is scanned.
ForeignKeysConfigured ==
  argv.addForeignKeyToFile # <<>> /\ argv.addForeignKeyColumn # <<>>

\* The schema has been finalized: no tag is "null" and the index-to-type map
\* lists, in order, the tags of the sampled columns.
SchemaFinalized ==
  /\ \A i \in 1..Len(tableSchema) : tableSchema[i][2] # "null"
  /\ Len(columnIndexToDataTypeMap) = Cardinality(ColumnsOf(Sampled))
  /\ Len(columnIndexToDataTypeMap) <= Len(tableSchema)
  /\ \A i \in 1..Len(columnIndexToDataTypeMap) :
       columnIndexToDataTypeMap[i] = tableSchema[i][2]

\* C12: (a) with foreign keys configured, the analysis stream delivers no
\* row of the main file before the second file's last row has been scanned;
\* (b) no row is encoded before the analysis stream has been destroyed at the
\* sample cap and the schema finalized; (c) once a row has been encoded the
\* analysis pass receives no further row, and the schema changes only when
\* the "end" handler of the encoding pass adds the key columns.
C12_StagesAreSequential ==
  /\ [](/\ (ForeignKeysConfigured /\ (anStream # "idle" \/ anRead > 0))
              => (fkStream = "ended" /\ fkRead = Len(fkFile) /\ pkCounter = Len(fkFile))
        /\ (encStream # "idle" \/ encRead > 0 \/ encoded # <<>>)
              => (/\ anStream = "destroyed"
                  /\ rowCount = SampleCap + 1
                  /\ (encStream = "open" => SchemaFinalized)))
  /\ [][encoded # <<>>
          => (/\ anRead' = anRead
              /\ rowCount' = rowCount
              /\ columnIndexToDataTypeMap' = columnIndexToDataTypeMap
              /\ (tableSchema' # tableSchema => (encStream = "open" /\ encStream' = "ended")))]_vars

\* A run with foreign keys configured that has scanned two rows of the second
\* file, sampled the main file up to the cap and encoded its first row.
C12_Witness ==
  /\ ForeignKeysConfigured
  /\ Len(fkFile) = 2
  /\ fkStream = "ended"
  /\ anStream = "destroyed"
  /\ encStream = "open"
  /\ Len(encoded) = 1
  /\ Len(file) = SampleCap + 2

(***************************************************************************)
(* C13: the encoding pass runs once, and the Row Buffer it fills.          *)
(***************************************************************************)
\* The tuple of source row k as the encoder rendered it, with primary-key
\* value pk.
TupleOf(k, pk) ==
  <<"(">> \o Join(InsertParts(Join(encoded[k].values, <<",", " ">>), pk,
                              encoded[k].foreignKeyValue), <<",", " ">>)
    \o <<")">>

ColumnsOfTuple(k) ==
  [i \in 1..Len(file[k]) |-> ToLowerCase(file[k][i][1])]
    \o (IF encoded[k].primaryKeyValue # <<>> THEN <<<<"i", "d">>>> ELSE <<>>)
    \o (IF encoded[k].foreignKeyValue # <<>>
          THEN <<argv.addForeignKeyColumn \o <<"_", "f", "k">>>> ELSE <<>>)

\* C14: in every emitted main-table INSERT statement every tuple has as many
\* values as the statement lists columns, and its i-th value belongs to the
\* i-th listed column.
C14_TuplesMatchColumnList ==
  encStream = "ended" =>
    \A n \in 1..Len(Written("INSERT", "main")) :
      \A k \in 1..Len(encoded) :
        ColumnsOfTuple(k) = Written("INSERT", "main")[n].columns

(***************************************************************************)
(* C15: the tag the encoder uses for a field.                              *)
(***************************************************************************)
\* The finalized schema's tag of a column; "undefined" for a column the
\* schema does not hold.
SchemaTag(col) == IF Has(tableSchema, col) THEN Get(tableSchema, col) ELSE "undefined"

\* C15: for every encoded row and every field of it, the tag the encoder
\* read from the index-to-type map is the finalized schema's tag of the
\* field's own case-normalized column name.  (Stated while the encoding
\* stream is open, when tableSchema is the finalized schema.)
C15_TagIsOwnColumnsTag ==
  encStream = "open" =>
    \A k \in 1..Len(encoded) :
      \A i \in 1..Len(file[k]) :
        encoded[k].tags[i] = SchemaTag(ToLowerCase(file[k][i][1]))

(***************************************************************************)
(* C16: the literals of the lookup table's INSERT statements.              *)
(***************************************************************************)
\* The text between the outer quotes of a lookup tuple (id, 'text').
LiteralOf(tuple) ==
  LET open == CHOOSE p \in 1..Len(tuple) :
                tuple[p] = "'" /\ \A q \in 1..(p - 1) : tuple[q] # "'"
  IN SubSeq(tuple, open + 1, Len(tuple) - 2)

\* C16: once the statements are emitted, the i-th lookup INSERT carries the
\* i-th distinct raw lookup value: its literal, read as SQL reads it (each
\* doubled quote as one), is that raw value, and holds twice as many quote
\* characters as the raw value; and two fields were given the same id only
\* if their raw values are equal.
C16_LookupLiteralRoundTrips ==
  encStream = "ended" =>
    LET ins == Written("INSERT", "lookup")
        seen == LookupValuesSeen
        d == Distinct(seen)
        substituted == Flatten([k \in 1..Len(encoded) |->
                                  SelectSeq(encoded[k].subst, LAMBDA id : id # 0)])
    IN /\ Len(ins) = Len(d)
       /\ \A i \in 1..Len(d) :
            /\ Len(ins[i].tuples) = 1
            /\ Unescape(LiteralOf(ins[i].tuples[1])) = d[i]
            /\ CountQuotes(LiteralOf(ins[i].tuples[1])) = 2 * CountQuotes(d[i])
       /\ Len(substituted) = Len(seen)
       /\ \A k1, k2 \in 1..Len(seen) :
            substituted[k1] = substituted[k2] => seen[k1] = seen[k2]

(***************************************************************************)
(* inferDataType, applied to one value.                                    *)
(***************************************************************************)
InferSigns == {<<>>, <<"-">>}

InferMagnitudes ==
  {<<"0">>, <<"7">>, <<"0", "0">>, <<"9", "9">>, <<"2", "1", "4", "7", "4", "8", "3", "6", "4">>, <<"2", "1", "4", "7", "4", "8", "3", "6", "4", "6">>, <<"2", "1", "4", "7", "4", "8", "3", "6", "4", "7">>,
   <<"2", "1", "4", "7", "4", "8", "3", "6", "4", "8">>, <<"2", "1", "4", "7", "4", "8", "3", "6", "4", "9">>, <<"0", "2", "1", "4", "7", "4", "8", "3", "6", "4", "7">>, <<"0", "2", "1", "4", "7", "4", "8", "3", "6", "4", "8">>, <<"3", "0", "0", "0", "0", "0", "0", "0", "0", "0">>,
   <<"2", "1", "4", "7", "4", "8", "3", "6", "4", "7", "0">>}

InferFractions == {<<>>, <<".", "0">>, <<".", "0", "0">>, <<".", "5">>}

InferValues ==
  {s \o m \o f : s \in InferSigns, m \in InferMagnitudes, f \in InferFractions}
    \cup {<<>>, <<"a", "b", "c">>, <<"1", ".">>, <<"-">>, <<"+", "5">>, <<" ", "5">>, <<"2", "0", "2", "1", "-", "0", "1", "-", "0", "1">>}

InitInferDataType ==
  /\ argv = DefaultArgv
  /\ file = <<>>
  /\ fkFile = <<>>
  /\ pc = "call"
  /\ Loaded
  /\ fnArgs \in [value : InferValues]
  /\ fnResult = <<>>

CallInferDataType ==
  /\ pc = "call"
  /\ fnResult' = InferDataType(fnArgs.value)
  /\ pc' = "return"
  /\ UNCHANGED <<argv, file, fkFile, fkStream, anStream, encStream, fkRead, anRead,
                 encRead, tableSchema, columnIndexToDataTypeMap, rows, primaryKeyCounter,
                 lookupPkCounter, lookupTableValues, forceTextColumns, foreignKeyvalues,
                 rowCount, pkCounter, outputFile, warnings, encoded, readCSVFileCalls,
                 fnArgs>>

NextInferDataType == CallInferDataType

SpecInferDataType == InitInferDataType /\ [][NextInferDataType]_vars

(***************************************************************************)
(* C17: the values inferDataType classifies as int.                        *)
(***************************************************************************)
\* x <= y for two digit strings without leading zeros.
RECURSIVE DigitsAtMost(_, _)
DigitsAtMost(x, y) ==
  IF Len(x) # Len(y) THEN Len(x) < Len(y)
  ELSE IF x = <<>> THEN TRUE
  ELSE IF x[1] # y[1] THEN DigitVal(x[1]) < DigitVal(y[1])
  ELSE DigitsAtMost(Tail(x), Tail(y))

\* The value is an optionally signed run of digits with, possibly, a
\* fraction of zeros only: it denotes an integer.
DenotesInteger(value) ==
  /\ NumericPattern(value)
  /\ \A i \in 1..Len(FractionDigits(value)) : FractionDigits(value)[i] = "0"

\* The integer the value denotes lies in [-2147483648, 2147483647].
InSigned32(value) ==
  LET ds == StripLeadingZeros(IntegerDigits(value)) IN
  IF value[1] = "-"
    THEN DigitsAtMost(ds, <<"2", "1", "4", "7", "4", "8", "3", "6", "4", "8">>)
    ELSE DigitsAtMost(ds, <<"2", "1", "4", "7", "4", "8", "3", "6", "4", "7">>)

\* C17: a value classified int denotes an integer of the signed 32-bit
\* range; an integral value outside the range, above or below, is classified
\* varchar(100); and the literal 0.0 is classified decimal.
C17_IntIsSigned32 ==
  pc = "return" =>
    /\ fnResult = "int" => (DenotesInteger(fnArgs.value) /\ InSigned32(fnArgs.value))
    /\ (DenotesInteger(fnArgs.value) /\ ~InSigned32(fnArgs.value))
         => fnResult = "varchar(100)"
    /\ fnArgs.value = <<"0", ".", "0">> => fnResult = "decimal(15, 5)"

(***************************************************************************)
(* The single-pass variant (src/unnamed/part_000): every row is analysed   *)
(* (up to a cap) and encoded by the same "data" handler.                   *)
(***************************************************************************)
\* isDatetime of the variant: strict parsing against its two formats.
SinglePassIsDatetime(value) ==
  StrictValid(value, FmtIsoMillis) \/ StrictValid(value, FmtSlashes)

\* inferDataType of the variant: no test for an empty value.
SinglePassInferDataType(value) ==
  IF NumericPattern(value)
    THEN IF NumberIsInteger(value) THEN "int" ELSE "decimal"
  ELSE IF SinglePassIsDatetime(value) THEN "datetime"
  ELSE IF DatePrefix(value) THEN "date"
  ELSE "text"

SinglePassDataTypePriority == <<"int", "decimal", "date", "text">>

SinglePassIsMoreSpecificDataType(currentType, newType) ==
  IndexOf(SinglePassDataTypePriority, newType)
    > IndexOf(SinglePassDataTypePriority, currentType)

SinglePassAnalyzeEntry(schema, key, value) ==
  IF ~Has(schema, key) THEN Put(schema, key, SinglePassInferDataType(value))
  ELSE IF SinglePassIsMoreSpecificDataType(Get(schema, key), SinglePassInferDataType(value))
    THEN Put(schema, key, SinglePassInferDataType(value))
  ELSE schema

RECURSIVE SinglePassAnalyzeEntries(_, _, _)
SinglePassAnalyzeEntries(schema, row, i) ==
  IF i > Len(row) THEN schema
  ELSE SinglePassAnalyzeEntries(SinglePassAnalyzeEntry(schema, row[i][1], row[i][2]),
                                row, i + 1)

SinglePassAnalyzeRow(schema, row) == SinglePassAnalyzeEntries(schema, row, 1)

\* generateInsertStatement of the variant: one INSERT statement per row,
\* every value quoted; without a primary key the id place stays empty.
SinglePassGenerateInsertStatement(row, a, counter) ==
  Statement("INSERT", "main", <<<<"i", "d">>>> \o Keys(row),
            << <<"(">> \o (IF a.addPrimaryKey THEN NumToStr(counter) ELSE <<>>)
                 \o <<",", " ">>
                 \o Join([i \in 1..Len(row) |->
                            <<"'">> \o EscapeSingleQuotes(row[i][2]) \o <<"'">>],
                         <<",", " ">>)
                 \o <<")">> >>)

\* generateCreateTableStatement of the variant: the id column comes first
\* and is not written into tableSchema.
SinglePassGenerateCreateTableStatement(schema, a) ==
  Statement("CREATE", "main",
            (IF a.addPrimaryKey
               THEN << <<<<"i", "d">>, "INT AUTO_INCREMENT PRIMARY KEY">> >> ELSE <<>>)
              \o schema,
            <<>>)

\* One column of mixed values, the empty value among them.
SinglePassRows ==
  { << <<<<"c">>, <<>>>> >>,
    << <<<<"c">>, <<"1">>>> >>,
    << <<<<"c">>, <<"1", ".", "5">>>> >>,
    << <<<<"c">>, <<"2", "0", "2", "1", "-", "0", "1", "-", "0", "1">>>> >>,
    << <<<<"c">>, <<"2", "0", "2", "1", "-", "0", "1", "-", "0", "1", " ", "1", "0", ":", "0", "0", ":", "0", "0", ".", "0", "0", "0">>>> >>,
    << <<<<"c">>, <<"x">>>> >> }

InitSinglePass ==
  /\ argv \in {[DefaultArgv EXCEPT !.dropTable = FALSE],
               [DefaultArgv EXCEPT !.addPrimaryKey = FALSE]}
  /\ file \in SeqsUpTo(SinglePassRows, MaxRows)
  /\ fkFile = <<>>
  /\ pc = "loop"
  /\ Loaded
  /\ fnArgs = <<>>
  /\ fnResult = <<>>

\* The "data" handler of the variant.
SinglePassData ==
  /\ pc = "loop"
  /\ anRead < Len(file)
  /\ anRead' = anRead + 1
  /\ rowCount' = rowCount + 1
  /\ tableSchema' = IF rowCount < SinglePassSampleCap
                      THEN SinglePassAnalyzeRow(tableSchema, file[anRead + 1])
                      ELSE tableSchema
  /\ rows' = Append(rows, SinglePassGenerateInsertStatement(file[anRead + 1], argv,
                                                            primaryKeyCounter))
  /\ primaryKeyCounter' = IF argv.addPrimaryKey THEN primaryKeyCounter + 1
                          ELSE primaryKeyCounter
  /\ UNCHANGED <<argv, file, fkFile, pc, fkStream, anStream, encStream, fkRead, encRead,
                 columnIndexToDataTypeMap, lookupPkCounter, lookupTableValues,
                 forceTextColumns, foreignKeyvalues, pkCounter, outputFile, warnings,
                 encoded, readCSVFileCalls, fnArgs, fnResult>>

\* The "end" handler of the variant.
SinglePassEnd ==
  /\ pc = "loop"
  /\ anRead = Len(file)
  /\ outputFile' = outputFile \o GenerateDropTableStatement(argv, "main")
                     \o <<SinglePassGenerateCreateTableStatement(tableSchema, argv)>>
                     \o rows
  /\ pc' = "exit0"
  /\ UNCHANGED <<argv, file, fkFile, fkStream, anStream, encStream, fkRead, anRead,
                 encRead, tableSchema, columnIndexToDataTypeMap, rows, primaryKeyCounter,
                 lookupPkCounter, lookupTableValues, forceTextColumns, foreignKeyvalues,
                 rowCount, pkCounter, warnings, encoded, readCSVFileCalls, fnArgs,
                 fnResult>>

NextSinglePass ==
  \/ SinglePassData
  \/ SinglePassEnd

SpecSinglePass == InitSinglePass /\ [][NextSinglePass]_vars

(***************************************************************************)
(* C18: the tags of the single-pass variant only move up.                  *)
(***************************************************************************)
SinglePassSpecificityOrder == <<"int", "decimal", "date", "datetime", "text">>

SinglePassRank(tag) ==
  CHOOSE i \in 1..Len(SinglePassSpecificityOrder) : SinglePassSpecificityOrder[i] = tag

\* The step analyses a row that holds an empty value for the column.
AnalysesEmptyValueOf(col) ==
  /\ anRead' = anRead + 1
  /\ rowCount < SinglePassSampleCap
  /\ Has(file[anRead + 1], col)
  /\ Get(file[anRead + 1], col) = <<>>

\* C18: in every step of the single-pass variant a classified column keeps
\* its tag or moves to a more specific one under the order
\* int < decimal < date < datetime < text, and a step that analyses an empty
\* value of the column leaves its tag as it is.
C18_TagOnlyMovesUp ==
  [][\A i \in 1..Len(tableSchema) :
       /\ Len(tableSchema') >= i
       /\ tableSchema'[i][1] = tableSchema[i][1]
       /\ SinglePassRank(tableSchema'[i][2]) >= SinglePassRank(tableSchema[i][2])
       /\ AnalysesEmptyValueOf(tableSchema[i][1]) => tableSchema'[i][2] = tableSchema[i][2]]_vars

====
